---- MODULE Spec2Model ----
(***************************************************************************)
(* The work-group scheduler of spirsim (src/spirsim/WorkGroup.cpp): the    *)
(* constructor's work-item grid, the round-based loop of run(), and the    *)
(* event registry (async_copy, wait_event, the group copy).                *)
(* WorkItem and Memory are collaborators whose code is elsewhere; their    *)
(* behaviour as consumed here is modelled from the specification.          *)
(***************************************************************************)
EXTENDS Integers, Sequences, FiniteSets, TLC

\* ---------------------------------------------------------------- bounds
\* Largest extent of one group dimension.
MaxDim == 2
\* Largest number of work-items of a group that runs an arbitrary kernel.
MaxItems == 3
\* Number of kernel instructions, other than the final return, that the
\* work-items of the group execute in one run().
MaxSteps == 4
\* Number of event handles a run may allocate.
MaxEvents == 2
\* Bytes of the global and of the local memory space.
MemSize == 2
\* Largest number of events one wait_group_events call names.
MaxWaitList == 2

\* ------------------------------------------------------------- data types
READY == "READY"
BARRIER == "BARRIER"
WAIT_EVENT == "WAIT_EVENT"
FINISHED == "FINISHED"

GLOBAL_TO_LOCAL == "GLOBAL_TO_LOCAL"
LOCAL_TO_GLOBAL == "LOCAL_TO_GLOBAL"

BarrierMsg == "Barrier divergence detected."
WaitMsg == "Wait for events divergence detected."

\* A slot of m_workItems that the constructor has not assigned.
Unset == <<>>

Min(S) == CHOOSE x \in S : \A y \in S : x <= y

\* The AsyncCopy descriptor the kernels of the model issue around.
BaseCopy ==
  [instruction |-> 1, type |-> GLOBAL_TO_LOCAL, dest |-> 0, src |-> 0, size |-> 1]

AllCopies ==
  [instruction : {1, 2}, type : {GLOBAL_TO_LOCAL, LOCAL_TO_GLOBAL},
   dest : {0, MemSize - 1}, src : {0, MemSize - 1}, size : {1, 2}]

FieldsDiffering(a, b) ==
  (IF a.instruction = b.instruction THEN 0 ELSE 1)
  + (IF a.type = b.type THEN 0 ELSE 1)
  + (IF a.dest = b.dest THEN 0 ELSE 1)
  + (IF a.src = b.src THEN 0 ELSE 1)
  + (IF a.size = b.size THEN 0 ELSE 1)

\* The descriptors kernels request: BaseCopy, every descriptor differing
\* from it in one field, and one whose source range runs past the end of
\* the memory space.
Copies ==
  {c \in AllCopies : FieldsDiffering(c, BaseCopy) <= 1}
  \cup {[BaseCopy EXCEPT !.src = MemSize - 1, !.size = 2]}

\* Contents an uninitialised byte of a transient buffer may hold.
JunkBytes == {0, 255}

\* Group sizes of every shape, for the work-item grid.
GridSizes == (0..MaxDim) \X (0..MaxDim) \X (0..MaxDim)

\* One-dimensional group sizes: run() reads the shape only through
\* m_totalWorkItems.
LineSizes == {<<n, 1, 1>> : n \in 0..MaxItems}

VARIABLES
  m_groupSize,        \* groupSize[3]
  m_totalWorkItems,
  m_workItems,        \* array slot -> the work-item (its local coordinate)
  wiState,            \* work-item -> WorkItem::m_state
  m_nextEvent,
  m_pendingEvents,    \* map: event -> list of AsyncCopy
  m_waitEvents,       \* set of events
  globalMemory,
  localMemory,
  numFinished, numBarriers, numWaitEvents,
  i, j, k,            \* loop counters (constructor; i also in run())
  state,              \* local of run(): result of the last step()
  event,              \* value returned by the last async_copy
  wge,                \* wait_event calls left in the current wait_group_events
  fuel,               \* kernel instructions left to the group
  cout,               \* fault messages printed so far
  awaited,            \* history: the wait_event calls of the current pass,
                      \* as <<slot of the calling work-item, event>>
  recording,          \* whether the run keeps that history
  pc

vars ==
  <<m_groupSize, m_totalWorkItems, m_workItems, wiState, m_nextEvent,
    m_pendingEvents, m_waitEvents, globalMemory, localMemory, numFinished,
    numBarriers, numWaitEvents, i, j, k, state, event, wge, fuel, cout,
    awaited, recording, pc>>

grid == <<m_groupSize, m_totalWorkItems, m_workItems>>
registry == <<m_nextEvent, m_pendingEvents, m_waitEvents>>
memory == <<globalMemory, localMemory>>
counters == <<numFinished, numBarriers, numWaitEvents>>

\* ------------------------------------------------------------ constructor
\* LinearIndex with i and j taken for each other.
LinearIndex_Transposed(ci, cj, ck, groupSize) ==
  cj + (ci + ck * groupSize[1]) * groupSize[2]

\* The slot of the work-item of coordinate (ci, cj, ck).
LinearIndex(ci, cj, ck, groupSize) == ci + (cj + ck * groupSize[2]) * groupSize[1]

\* The constructor is entered: groupSize is one of sizes, and the kernel has
\* steps instructions to run before it returns.
InitWith(sizes, steps) ==
  /\ m_groupSize \in sizes
  /\ m_totalWorkItems = m_groupSize[1] * m_groupSize[2] * m_groupSize[3]
  /\ m_workItems = [n \in 0..(m_totalWorkItems - 1) |-> Unset]
  /\ wiState = [w \in {} |-> READY]
  /\ m_nextEvent = 0
  /\ m_pendingEvents = [e \in {} |-> <<>>]
  /\ m_waitEvents = {}
  /\ globalMemory = [a \in 0..(MemSize - 1) |-> a + 1]
  /\ localMemory = [a \in 0..(MemSize - 1) |-> a + 1 + MemSize]
  /\ numFinished = 0 /\ numBarriers = 0 /\ numWaitEvents = 0
  /\ i = 0 /\ j = 0 /\ k = 0
  /\ state = READY
  /\ event = 0
  /\ wge = 0
  /\ fuel = steps
  /\ cout = <<>>
  /\ awaited = {}
  /\ pc = "ctor"

\* Body of the innermost loop: new WorkItem(i, j, k), stored at its index.
CtorPlace ==
  /\ pc = "ctor"
  /\ k < m_groupSize[3] /\ j < m_groupSize[2] /\ i < m_groupSize[1]
  /\ wiState' = [w \in DOMAIN wiState \cup {<<i, j, k>>} |->
                   IF w = <<i, j, k>> THEN READY ELSE wiState[w]]
  /\ m_workItems' =
       [m_workItems EXCEPT ![LinearIndex(i, j, k, m_groupSize)] = <<i, j, k>>]
  /\ i' = i + 1
  /\ UNCHANGED <<m_groupSize, m_totalWorkItems, registry, memory, counters,
                 j, k, state, event, wge, fuel, cout, pc, awaited, recording>>

\* The i loop ends: next j.
CtorNextJ ==
  /\ pc = "ctor"
  /\ k < m_groupSize[3] /\ j < m_groupSize[2] /\ ~(i < m_groupSize[1])
  /\ j' = j + 1 /\ i' = 0
  /\ UNCHANGED <<grid, wiState, registry, memory, counters, k, state, event,
                 wge, fuel, cout, pc, awaited, recording>>

\* The j loop ends: next k.
CtorNextK ==
  /\ pc = "ctor"
  /\ k < m_groupSize[3] /\ ~(j < m_groupSize[2])
  /\ k' = k + 1 /\ j' = 0 /\ i' = 0
  /\ UNCHANGED <<grid, wiState, registry, memory, counters, state, event,
                 wge, fuel, cout, pc, awaited, recording>>

\* The k loop ends: m_nextEvent = 1, and the object is constructed.
CtorEnd ==
  /\ pc = "ctor"
  /\ ~(k < m_groupSize[3])
  /\ m_nextEvent' = 1
  /\ i' = 0 /\ j' = 0 /\ k' = 0
  /\ pc' = "run"
  /\ UNCHANGED <<grid, wiState, m_pendingEvents, m_waitEvents, memory,
                 counters, state, event, wge, fuel, cout, awaited, recording>>

\* ------------------------------------------------- Memory (collaborator)
InBounds(address, size) == address + size <= MemSize

\* Memory::load: the buffer after the call. A load outside the space fails
\* and leaves the (uninitialised) buffer as it was.
Load(mem, buffer, address, size) ==
  IF InBounds(address, size)
  THEN [n \in 0..(size - 1) |-> mem[address + n]]
  ELSE buffer

\* Memory::store: the space after the call. A store outside the space fails
\* and writes nothing.
Store(mem, buffer, address, size) ==
  IF InBounds(address, size)
  THEN [a \in DOMAIN mem |->
          IF a >= address /\ a < address + size THEN buffer[a - address]
          ELSE mem[a]]
  ELSE mem

\* ----------------------------------------------- WorkItem (collaborator)
\* WorkItem::clearBarrier: a suspended work-item is READY again.
clearBarrier(s) == IF s \in {BARRIER, WAIT_EVENT} THEN READY ELSE s

\* The work-item run() is at.
workItem == m_workItems[i]

\* ---------------------------------------------------------- event registry
\* operator== without the instruction.
CopyEq_NoInstruction(a, b) ==
  /\ a.type = b.type
  /\ a.dest = b.dest
  /\ a.src = b.src
  /\ a.size = b.size

\* AsyncCopy::operator==
CopyEq(a, b) ==
  /\ a.instruction = b.instruction
  /\ a.type = b.type
  /\ a.dest = b.dest
  /\ a.src = b.src
  /\ a.size = b.size

\* The events of the map that hold a descriptor equal to copy.
Holding(copy) ==
  {e \in DOMAIN m_pendingEvents :
     \E n \in 1..Len(m_pendingEvents[e]) : CopyEq(m_pendingEvents[e][n], copy)}

\* The lowest handle that is not pending.
NewEvent_LowestFree == Min((1..m_nextEvent) \ DOMAIN m_pendingEvents)

\* The event a new registration gets: m_nextEvent++.
NewEvent == m_nextEvent

\* async_copy with m_nextEvent++ before the scan.
async_copy_CountFirst(copy, ev) ==
  IF Holding(copy) # {}
  THEN /\ event' = Min(Holding(copy))
       /\ m_nextEvent' = m_nextEvent + 1
       /\ UNCHANGED m_pendingEvents
  ELSE /\ event' = NewEvent
       /\ m_nextEvent' = m_nextEvent + 1
       /\ m_pendingEvents' =
            [e \in DOMAIN m_pendingEvents \cup {NewEvent} |->
               IF e = NewEvent THEN <<copy>> ELSE m_pendingEvents[e]]

\* async_copy without the scan.
async_copy_NoScan(copy, ev) ==
  /\ event' = NewEvent
  /\ m_nextEvent' = m_nextEvent + 1
  /\ m_pendingEvents' =
       [e \in DOMAIN m_pendingEvents \cup {NewEvent} |->
          IF e = NewEvent THEN <<copy>> ELSE m_pendingEvents[e]]

\* async_copy with a new descriptor appended to the event it is given,
\* when that event is pending.
async_copy_AppendToEvent(copy, ev) ==
  IF Holding(copy) # {}
  THEN /\ event' = Min(Holding(copy))
       /\ UNCHANGED <<m_nextEvent, m_pendingEvents>>
  ELSE IF ev \in DOMAIN m_pendingEvents
  THEN /\ event' = ev
       /\ m_pendingEvents' =
            [m_pendingEvents EXCEPT ![ev] = Append(m_pendingEvents[ev], copy)]
       /\ UNCHANGED m_nextEvent
  ELSE /\ event' = NewEvent
       /\ m_nextEvent' = m_nextEvent + 1
       /\ m_pendingEvents' =
            [e \in DOMAIN m_pendingEvents \cup {NewEvent} |->
               IF e = NewEvent THEN <<copy>> ELSE m_pendingEvents[e]]

\* WorkGroup::async_copy(copy, ev): the map is scanned in key order and the
\* first event holding an equal descriptor is returned; otherwise a new
\* event is registered with the descriptor as its only one. The argument ev
\* is overwritten before it is read.
async_copy(copy, ev) ==
  IF Holding(copy) # {}
  THEN /\ event' = Min(Holding(copy))
       /\ UNCHANGED <<m_nextEvent, m_pendingEvents>>
  ELSE /\ event' = NewEvent
       /\ m_nextEvent' = m_nextEvent + 1
       /\ m_pendingEvents' =
            [e \in DOMAIN m_pendingEvents \cup {NewEvent} |->
               IF e = NewEvent THEN <<copy>> ELSE m_pendingEvents[e]]

\* wait_event with the assertion compiled out.
wait_event_NoAssert(ev) ==
  pc' = pc /\ m_waitEvents' = m_waitEvents \cup {ev}

\* WorkGroup::wait_event(ev): the assertion ends the process when ev is not
\* a key of m_pendingEvents; otherwise ev joins m_waitEvents.
wait_event(ev) ==
  IF ev \notin DOMAIN m_pendingEvents
  THEN pc' = "aborted" /\ UNCHANGED m_waitEvents
  ELSE pc' = pc /\ m_waitEvents' = m_waitEvents \cup {ev}

\* DoCopy with the direction test inverted.
DoCopy_Inverted(copy, mems, junk) ==
  LET srcMem == IF copy.type # GLOBAL_TO_LOCAL THEN mems.global ELSE mems.local
      destMem == IF copy.type # GLOBAL_TO_LOCAL THEN mems.local ELSE mems.global
      buffer == Load(srcMem, [n \in 0..(copy.size - 1) |-> junk[n]],
                     copy.src, copy.size)
      stored == Store(destMem, buffer, copy.dest, copy.size)
  IN IF copy.type # GLOBAL_TO_LOCAL
     THEN [global |-> mems.global, local |-> stored]
     ELSE [global |-> stored, local |-> mems.local]

\* One descriptor of the group copy: load from the source space into a new
\* buffer (junk: what the buffer holds before the load), store to the
\* destination space. The results of load and store are not looked at.
DoCopy(copy, mems, junk) ==
  LET srcMem == IF copy.type = GLOBAL_TO_LOCAL THEN mems.global ELSE mems.local
      destMem == IF copy.type = GLOBAL_TO_LOCAL THEN mems.local ELSE mems.global
      buffer == Load(srcMem, [n \in 0..(copy.size - 1) |-> junk[n]],
                     copy.src, copy.size)
      stored == Store(destMem, buffer, copy.dest, copy.size)
  IN IF copy.type = GLOBAL_TO_LOCAL
     THEN [global |-> mems.global, local |-> stored]
     ELSE [global |-> stored, local |-> mems.local]

\* The descriptors of one event, in list order.
RECURSIVE DoCopies(_, _, _)
DoCopies(copies, mems, junk) ==
  IF copies = <<>> THEN mems
  ELSE DoCopies(Tail(copies), DoCopy(Head(copies), mems, junk), junk)

\* GroupCopy without the erase.
RECURSIVE GroupCopy_NoErase(_, _, _, _)
GroupCopy_NoErase(events, pending, mems, junk) ==
  IF events = {} THEN [pending |-> pending, mems |-> mems]
  ELSE LET e == Min(events)
           copies == IF e \in DOMAIN pending THEN pending[e] ELSE <<>>
       IN GroupCopy_NoErase(events \ {e}, pending,
                            DoCopies(copies, mems, junk[e]), junk)

\* GroupCopy with m_pendingEvents.clear() for the erase.
GroupCopy_ClearAll(events, pending, mems, junk) ==
  [pending |-> [h \in {} |-> <<>>],
   mems |-> GroupCopy_NoErase(events, pending, mems, junk).mems]

\* GroupCopy with m_waitEvents gone through from its largest event down.
RECURSIVE GroupCopy_Descending(_, _, _, _)
GroupCopy_Descending(events, pending, mems, junk) ==
  IF events = {} THEN [pending |-> pending, mems |-> mems]
  ELSE LET e == CHOOSE x \in events : \A y \in events : x >= y
           copies == IF e \in DOMAIN pending THEN pending[e] ELSE <<>>
       IN GroupCopy_Descending(events \ {e},
                               [h \in DOMAIN pending \ {e} |-> pending[h]],
                               DoCopies(copies, mems, junk[e]),
                               junk)

\* The loop over m_waitEvents (a std::set: ascending order). The lookup
\* m_pendingEvents[e] makes an empty list for a key the map does not have;
\* the event is erased after its copies.
RECURSIVE GroupCopy(_, _, _, _)
GroupCopy(events, pending, mems, junk) ==
  IF events = {} THEN [pending |-> pending, mems |-> mems]
  ELSE LET e == Min(events)
           copies == IF e \in DOMAIN pending THEN pending[e] ELSE <<>>
       IN GroupCopy(events \ {e},
                    [h \in DOMAIN pending \ {e} |-> pending[h]],
                    DoCopies(copies, mems, junk[e]),
                    junk)

\* ------------------------------------------------------------------ run()
\* int numFinished = 0
RunBegin ==
  /\ pc = "run"
  /\ numFinished' = 0
  /\ pc' = "loop"
  /\ UNCHANGED <<grid, wiState, registry, memory, numBarriers, numWaitEvents,
                 i, j, k, state, event, wge, fuel, cout, awaited, recording>>

\* PassBegin for a do-while loop: the first pass is unconditional.
PassBegin_DoWhile ==
  /\ pc = "loop"
  /\ numFinished < m_totalWorkItems \/ numFinished = 0
  /\ numBarriers' = 0
  /\ numWaitEvents' = 0
  /\ i' = 0
  /\ awaited' = {}
  /\ pc' = "pass"
  /\ UNCHANGED <<grid, wiState, registry, memory, numFinished, j, k, state,
                 event, wge, fuel, cout, recording>>

\* while (numFinished < m_totalWorkItems): a pass begins.
PassBegin ==
  /\ pc = "loop"
  /\ numFinished < m_totalWorkItems
  /\ numBarriers' = 0
  /\ numWaitEvents' = 0
  /\ i' = 0
  /\ awaited' = {}
  /\ pc' = "pass"
  /\ UNCHANGED <<grid, wiState, registry, memory, numFinished, j, k, state,
                 event, wge, fuel, cout, recording>>

\* The while loop ends: run() returns.
RunReturn ==
  /\ pc = "loop"
  /\ ~(numFinished < m_totalWorkItems)
  /\ pc' = "returned"
  /\ UNCHANGED <<grid, wiState, registry, memory, counters, i, j, k, state,
                 event, wge, fuel, cout, awaited, recording>>

\* ForItem with slot 0 passed over as well.
ForItem_FromOne ==
  /\ pc = "pass"
  /\ i < m_totalWorkItems
  /\ IF wiState[workItem] # READY \/ i = 0
     THEN i' = i + 1 /\ UNCHANGED <<state, pc>>
     ELSE state' = wiState[workItem] /\ pc' = "step" /\ UNCHANGED i
  /\ UNCHANGED <<grid, wiState, registry, memory, counters, j, k, event, wge,
                 fuel, cout, awaited, recording>>

\* for (i ...): a work-item that is not READY is passed over; a READY one
\* is run.
ForItem ==
  /\ pc = "pass"
  /\ i < m_totalWorkItems
  /\ IF wiState[workItem] # READY
     THEN i' = i + 1 /\ UNCHANGED <<state, pc>>
     ELSE state' = wiState[workItem] /\ pc' = "step" /\ UNCHANGED i
  /\ UNCHANGED <<grid, wiState, registry, memory, counters, j, k, event, wge,
                 fuel, cout, awaited, recording>>

\* The for loop ends.
ForEnd ==
  /\ pc = "pass"
  /\ ~(i < m_totalWorkItems)
  /\ pc' = "barrierCheck"
  /\ UNCHANGED <<grid, wiState, registry, memory, counters, i, j, k, state,
                 event, wge, fuel, cout, awaited, recording>>

\* ------------------ workItem->step(): one kernel instruction of workItem
\* An instruction that neither synchronises nor returns.
StepCompute ==
  /\ pc = "step" /\ state = READY
  /\ fuel > 0
  /\ fuel' = fuel - 1
  /\ state' = READY
  /\ UNCHANGED <<grid, wiState, registry, memory, counters, i, j, k, event,
                 wge, cout, pc, awaited, recording>>

\* async_work_group_copy: the work-item calls async_copy(copy, ev) and goes
\* on.
RequestCopy(copy, ev) ==
  /\ pc = "step" /\ state = READY
  /\ fuel > 0
  /\ Holding(copy) # {} \/ m_nextEvent <= MaxEvents
  /\ async_copy(copy, ev)
  /\ fuel' = fuel - 1
  /\ state' = READY
  /\ UNCHANGED <<grid, wiState, m_waitEvents, memory, counters, i, j, k, wge,
                 cout, pc, awaited, recording>>

StepAsyncCopy == \E copy \in Copies, ev \in 0..1 : RequestCopy(copy, ev)

\* wait_group_events(num, list): the work-item starts on the list.
StepWaitGroupEvents ==
  /\ pc = "step" /\ state = READY
  /\ fuel > 0
  /\ wge' \in 0..MaxWaitList
  /\ fuel' = fuel - 1
  /\ pc' = "wge"
  /\ UNCHANGED <<grid, wiState, registry, memory, counters, i, j, k, state,
                 event, cout, awaited, recording>>

\* The next event of the list: the work-item calls wait_event(ev).
AwaitEvent(ev) ==
  /\ pc = "wge"
  /\ wge > 0
  /\ wait_event(ev)
  /\ awaited' = IF recording THEN awaited \cup {<<i, ev>>} ELSE awaited
  /\ wge' = wge - 1
  /\ UNCHANGED <<grid, wiState, m_nextEvent, m_pendingEvents, memory,
                 counters, i, j, k, state, event, fuel, cout, recording>>

WaitEventCall == \E ev \in 1..MaxEvents : AwaitEvent(ev)

\* The list is done: the work-item is in WAIT_EVENT and step() returns.
WaitGroupEventsEnd ==
  /\ pc = "wge"
  /\ wge = 0
  /\ wiState' = [wiState EXCEPT ![workItem] = WAIT_EVENT]
  /\ state' = WAIT_EVENT
  /\ pc' = "tally"
  /\ UNCHANGED <<grid, registry, memory, counters, i, j, k, event, wge, fuel,
                 cout, awaited, recording>>

\* barrier(): the work-item is in BARRIER and step() returns.
StepBarrier ==
  /\ pc = "step" /\ state = READY
  /\ fuel > 0
  /\ fuel' = fuel - 1
  /\ wiState' = [wiState EXCEPT ![workItem] = BARRIER]
  /\ state' = BARRIER
  /\ pc' = "tally"
  /\ UNCHANGED <<grid, registry, memory, counters, i, j, k, event, wge, cout,
                 awaited, recording>>

\* The kernel returns: the work-item is FINISHED and step() returns.
StepReturn ==
  /\ pc = "step" /\ state = READY
  /\ wiState' = [wiState EXCEPT ![workItem] = FINISHED]
  /\ state' = FINISHED
  /\ pc' = "tally"
  /\ UNCHANGED <<grid, registry, memory, counters, i, j, k, event, wge, fuel,
                 cout, awaited, recording>>

\* UpdateCounters without numFinished++.
UpdateCounters_NoFinished ==
  /\ pc = "tally"
  /\ numBarriers' = IF state = BARRIER THEN numBarriers + 1 ELSE numBarriers
  /\ numWaitEvents' =
       IF state # BARRIER /\ state = WAIT_EVENT THEN numWaitEvents + 1
       ELSE numWaitEvents
  /\ numFinished' = numFinished
  /\ i' = i + 1
  /\ pc' = "pass"
  /\ UNCHANGED <<grid, wiState, registry, memory, j, k, state, event, wge,
                 fuel, cout, awaited, recording>>

\* UpdateCounters with numFinished++ for every state but BARRIER.
UpdateCounters_ElseFinished ==
  /\ pc = "tally"
  /\ numBarriers' = IF state = BARRIER THEN numBarriers + 1 ELSE numBarriers
  /\ numWaitEvents' =
       IF state # BARRIER /\ state = WAIT_EVENT THEN numWaitEvents + 1
       ELSE numWaitEvents
  /\ numFinished' = IF state # BARRIER THEN numFinished + 1 ELSE numFinished
  /\ i' = i + 1
  /\ pc' = "pass"
  /\ UNCHANGED <<grid, wiState, registry, memory, j, k, state, event, wge,
                 fuel, cout, awaited, recording>>

\* "Update counters", and the for loop's i++.
UpdateCounters ==
  /\ pc = "tally"
  /\ numBarriers' = IF state = BARRIER THEN numBarriers + 1 ELSE numBarriers
  /\ numWaitEvents' =
       IF state # BARRIER /\ state = WAIT_EVENT THEN numWaitEvents + 1
       ELSE numWaitEvents
  /\ numFinished' =
       IF state # BARRIER /\ state # WAIT_EVENT /\ state = FINISHED
       THEN numFinished + 1
       ELSE numFinished
  /\ i' = i + 1
  /\ pc' = "pass"
  /\ UNCHANGED <<grid, wiState, registry, memory, j, k, state, event, wge,
                 fuel, cout, awaited, recording>>

\* ------------------------------------- the checks at the end of a pass
\* BarrierAll without the calls of clearBarrier.
BarrierAll_NoRelease ==
  /\ pc = "barrierCheck"
  /\ numBarriers = m_totalWorkItems
  /\ pc' = "waitCheck"
  /\ UNCHANGED <<grid, wiState, registry, memory, counters, i, j, k, state,
                 event, wge, fuel, cout, awaited, recording>>

\* All work-items reached a barrier: clearBarrier on each.
BarrierAll ==
  /\ pc = "barrierCheck"
  /\ numBarriers = m_totalWorkItems
  /\ wiState' = [w \in DOMAIN wiState |->
                   IF \E n \in 0..(m_totalWorkItems - 1) : m_workItems[n] = w
                   THEN clearBarrier(wiState[w]) ELSE wiState[w]]
  /\ pc' = "waitCheck"
  /\ UNCHANGED <<grid, registry, memory, counters, i, j, k, state, event, wge,
                 fuel, cout, awaited, recording>>

\* BarrierDivergence without the return.
BarrierDivergence_NoReturn ==
  /\ pc = "barrierCheck"
  /\ numBarriers # m_totalWorkItems
  /\ numBarriers > 0
  /\ cout' = Append(cout, BarrierMsg)
  /\ pc' = "waitCheck"
  /\ UNCHANGED <<grid, wiState, registry, memory, counters, i, j, k, state,
                 event, wge, fuel, awaited, recording>>

\* Some, not all: the message, and run() returns.
BarrierDivergence ==
  /\ pc = "barrierCheck"
  /\ numBarriers # m_totalWorkItems
  /\ numBarriers > 0
  /\ cout' = Append(cout, BarrierMsg)
  /\ pc' = "returned"
  /\ UNCHANGED <<grid, wiState, registry, memory, counters, i, j, k, state,
                 event, wge, fuel, awaited, recording>>

\* None.
BarrierNone ==
  /\ pc = "barrierCheck"
  /\ numBarriers # m_totalWorkItems
  /\ ~(numBarriers > 0)
  /\ pc' = "waitCheck"
  /\ UNCHANGED <<grid, wiState, registry, memory, counters, i, j, k, state,
                 event, wge, fuel, cout, awaited, recording>>

\* The events of m_waitEvents with a descriptor whose load fails: the only
\* ones for which what the new buffer held shows.
LoadFails ==
  {e \in m_waitEvents \cap DOMAIN m_pendingEvents :
     \E n \in 1..Len(m_pendingEvents[e]) :
       ~InBounds(m_pendingEvents[e][n].src, m_pendingEvents[e][n].size)}

\* WaitAll entered as soon as one work-item waits for events.
WaitAll_OnAny ==
  /\ pc = "waitCheck"
  /\ numWaitEvents > 0
  /\ \E held \in [LoadFails -> [0..(MemSize - 1) -> JunkBytes]] :
       LET junk == [e \in m_waitEvents |->
                      IF e \in LoadFails THEN held[e]
                      ELSE [n \in 0..(MemSize - 1) |-> 0]]
           done == GroupCopy(m_waitEvents, m_pendingEvents,
                             [global |-> globalMemory, local |-> localMemory],
                             junk)
       IN /\ m_pendingEvents' = done.pending
          /\ globalMemory' = done.mems.global
          /\ localMemory' = done.mems.local
  /\ m_waitEvents' = {}
  /\ wiState' = [w \in DOMAIN wiState |->
                   IF \E n \in 0..(m_totalWorkItems - 1) : m_workItems[n] = w
                   THEN clearBarrier(wiState[w]) ELSE wiState[w]]
  /\ pc' = "loop"
  /\ UNCHANGED <<grid, m_nextEvent, counters, i, j, k, state, event, wge,
                 fuel, cout, awaited, recording>>

\* WaitAll without m_waitEvents.clear().
WaitAll_NoClear ==
  /\ pc = "waitCheck"
  /\ numWaitEvents = m_totalWorkItems
  /\ \E held \in [LoadFails -> [0..(MemSize - 1) -> JunkBytes]] :
       LET junk == [e \in m_waitEvents |->
                      IF e \in LoadFails THEN held[e]
                      ELSE [n \in 0..(MemSize - 1) |-> 0]]
           done == GroupCopy(m_waitEvents, m_pendingEvents,
                             [global |-> globalMemory, local |-> localMemory],
                             junk)
       IN /\ m_pendingEvents' = done.pending
          /\ globalMemory' = done.mems.global
          /\ localMemory' = done.mems.local
  /\ wiState' = [w \in DOMAIN wiState |->
                   IF \E n \in 0..(m_totalWorkItems - 1) : m_workItems[n] = w
                   THEN clearBarrier(wiState[w]) ELSE wiState[w]]
  /\ pc' = "loop"
  /\ UNCHANGED <<grid, m_nextEvent, m_waitEvents, counters, i, j, k, state,
                 event, wge, fuel, cout, awaited, recording>>

\* All work-items wait for events: the group copy, m_waitEvents.clear(),
\* clearBarrier on each. The buffers are uninitialised: those of a failing
\* load hold any bytes, those of the other events are overwritten by the
\* load whatever they held.
WaitAll ==
  /\ pc = "waitCheck"
  /\ numWaitEvents = m_totalWorkItems
  /\ \E held \in [LoadFails -> [0..(MemSize - 1) -> JunkBytes]] :
       LET junk == [e \in m_waitEvents |->
                      IF e \in LoadFails THEN held[e]
                      ELSE [n \in 0..(MemSize - 1) |-> 0]]
           done == GroupCopy(m_waitEvents, m_pendingEvents,
                             [global |-> globalMemory, local |-> localMemory],
                             junk)
       IN /\ m_pendingEvents' = done.pending
          /\ globalMemory' = done.mems.global
          /\ localMemory' = done.mems.local
  /\ m_waitEvents' = {}
  /\ wiState' = [w \in DOMAIN wiState |->
                   IF \E n \in 0..(m_totalWorkItems - 1) : m_workItems[n] = w
                   THEN clearBarrier(wiState[w]) ELSE wiState[w]]
  /\ pc' = "loop"
  /\ UNCHANGED <<grid, m_nextEvent, counters, i, j, k, state, event, wge,
                 fuel, cout, awaited, recording>>

\* WaitDivergence without the return.
WaitDivergence_NoReturn ==
  /\ pc = "waitCheck"
  /\ numWaitEvents # m_totalWorkItems
  /\ numWaitEvents > 0
  /\ cout' = Append(cout, WaitMsg)
  /\ pc' = "loop"
  /\ UNCHANGED <<grid, wiState, registry, memory, counters, i, j, k, state,
                 event, wge, fuel, awaited, recording>>

\* Some, not all: the message, and run() returns.
WaitDivergence ==
  /\ pc = "waitCheck"
  /\ numWaitEvents # m_totalWorkItems
  /\ numWaitEvents > 0
  /\ cout' = Append(cout, WaitMsg)
  /\ pc' = "returned"
  /\ UNCHANGED <<grid, wiState, registry, memory, counters, i, j, k, state,
                 event, wge, fuel, awaited, recording>>

\* None: the while loop goes round.
WaitNone ==
  /\ pc = "waitCheck"
  /\ numWaitEvents # m_totalWorkItems
  /\ ~(numWaitEvents > 0)
  /\ pc' = "loop"
  /\ UNCHANGED <<grid, wiState, registry, memory, counters, i, j, k, state,
                 event, wge, fuel, cout, awaited, recording>>

Next ==
  \/ CtorPlace \/ CtorNextJ \/ CtorNextK \/ CtorEnd
  \/ RunBegin \/ PassBegin \/ RunReturn \/ ForItem \/ ForEnd
  \/ StepCompute \/ StepAsyncCopy \/ StepWaitGroupEvents \/ WaitEventCall
  \/ WaitGroupEventsEnd \/ StepBarrier \/ StepReturn \/ UpdateCounters
  \/ BarrierAll \/ BarrierDivergence \/ BarrierNone
  \/ WaitAll \/ WaitDivergence \/ WaitNone

\* Groups of up to MaxItems work-items running any kernel of up to MaxSteps
\* instructions.
Init == InitWith(LineSizes, MaxSteps) /\ recording = FALSE

Spec == Init /\ [][Next]_vars

\* Groups of every shape up to MaxDim in each dimension, running the kernel
\* that returns at once.
InitGrid == InitWith(GridSizes, 0) /\ recording = FALSE

NextGrid ==
  \/ CtorPlace \/ CtorNextJ \/ CtorNextK \/ CtorEnd
  \/ RunBegin \/ PassBegin \/ RunReturn \/ ForItem \/ ForEnd
  \/ StepReturn \/ UpdateCounters \/ BarrierNone \/ WaitNone

GridSpec == InitGrid /\ [][NextGrid]_vars

\* The same groups with kernels of up to MaxSteps - 1 instructions, for
\* what run() eventually does. run() is one thread: a step that can be
\* taken is taken.
FairInit == InitWith(LineSizes, MaxSteps - 1) /\ recording = FALSE

FairSpec == FairInit /\ [][Next]_vars /\ WF_vars(Next)

\* The groups and kernels of Spec, with the history of the wait_event calls
\* kept.
InitHistory == InitWith(LineSizes, MaxSteps) /\ recording = TRUE

HistorySpec == InitHistory /\ [][Next]_vars

\* ---- the kernel  e = async_work_group_copy(c); wait_group_events(1, &e);
\* ---- return  run by every work-item of the group
\* The group starts with two instructions per work-item to run, so a
\* work-item about to step has its request to make when fuel is even, its
\* wait when fuel is odd, and returns when fuel is 0.
InitCopyKernel ==
  /\ \E n \in 0..MaxItems : InitWith({<<n, 1, 1>>}, 2 * n)
  /\ recording = TRUE

\* The request: the first one of the run is for any descriptor, the others
\* for the same one.
KernelRequest ==
  /\ pc = "step"
  /\ fuel > 0 /\ fuel % 2 = 0
  /\ \E copy \in (IF m_nextEvent = 1 THEN Copies ELSE {m_pendingEvents[1][1]}),
        ev \in 0..1 :
       RequestCopy(copy, ev)

\* wait_group_events(1, &e) ...
KernelWait ==
  /\ pc = "step"
  /\ fuel % 2 = 1
  /\ StepWaitGroupEvents
  /\ wge' = 1

\* ... whose one event is the handle the request returned.
KernelAwait == AwaitEvent(event)

KernelReturn ==
  /\ pc = "step"
  /\ fuel = 0
  /\ StepReturn

NextCopyKernel ==
  \/ CtorPlace \/ CtorNextJ \/ CtorNextK \/ CtorEnd
  \/ RunBegin \/ PassBegin \/ RunReturn \/ ForItem \/ ForEnd
  \/ KernelRequest \/ KernelWait \/ KernelAwait \/ WaitGroupEventsEnd
  \/ KernelReturn \/ UpdateCounters \/ BarrierNone \/ WaitAll \/ WaitNone

CopyKernelSpec ==
  InitCopyKernel /\ [][NextCopyKernel]_vars /\ WF_vars(NextCopyKernel)

\* ================================================================ claims
\* The work-items of the group, and those in state s.
Items == DOMAIN wiState
ItemsIn(s) == {w \in Items : wiState[w] = s}
NumIn(s) == Cardinality(ItemsIn(s))

\* C1 - Barrier all-or-nothing. At the barrier check that ends a pass: when
\* all N work-items are in BARRIER, every one is READY afterwards, nothing
\* is printed, run() does not return and the next thing it does is begin
\* another pass; when between 1 and N-1 are in BARRIER, run() prints the
\* barrier-divergence message and returns, and every work-item is in the
\* state it was in (those in BARRIER still are).
C1_BarrierAllOrNothing ==
  [][/\ (pc = "barrierCheck" /\ NumIn(BARRIER) = m_totalWorkItems)
          => /\ \A w \in Items : wiState'[w] = READY
             /\ pc' = "waitCheck"
             /\ cout' = cout
     /\ (pc = "waitCheck" /\ NumIn(READY) = m_totalWorkItems)
          => /\ pc' = "loop"
             /\ wiState' = wiState
             /\ cout' = cout
     /\ (pc = "loop" /\ m_totalWorkItems > 0 /\ NumIn(READY) = m_totalWorkItems)
          => /\ pc' = "pass"
             /\ i' = 0
             /\ wiState' = wiState
     /\ (pc = "barrierCheck" /\ 0 < NumIn(BARRIER)
           /\ NumIn(BARRIER) < m_totalWorkItems)
          => /\ pc' = "returned"
             /\ cout' = Append(cout, BarrierMsg)
             /\ wiState' = wiState
             /\ ItemsIn(BARRIER)' = ItemsIn(BARRIER)
    ]_vars

\* A barrier that every work-item of a group of two or more reached has
\* just released them.
C1_Witness ==
  /\ pc = "waitCheck"
  /\ m_totalWorkItems >= 2
  /\ numBarriers = m_totalWorkItems
  /\ NumIn(READY) = m_totalWorkItems

\* C2 as stated - whenever run() has returned with between 1 and N-1
\* work-items in WAIT_EVENT, the fault it reported is the event-wait
\* divergence.
C2_Original ==
  (pc = "returned" /\ 0 < NumIn(WAIT_EVENT)
     /\ NumIn(WAIT_EVENT) < m_totalWorkItems)
    => cout = <<WaitMsg>>

\* C2 - Event-wait all-or-nothing. At the checks that end a pass: when all
\* N work-items are in WAIT_EVENT, every handle of m_waitEvents is
\* fulfilled (gone from m_pendingEvents, nothing else is), m_waitEvents is
\* empty and every work-item is READY afterwards, and run() goes on; when
\* between 1 and N-1 are in WAIT_EVENT, run() returns with a divergence
\* fault and releases no work-item: the barrier-divergence fault when some
\* work-item is in BARRIER, the event-wait-divergence fault otherwise.
C2_EventWaitAllOrNothing ==
  [][/\ (pc = "waitCheck" /\ m_totalWorkItems > 0
           /\ NumIn(WAIT_EVENT) = m_totalWorkItems)
          => /\ DOMAIN m_pendingEvents' = DOMAIN m_pendingEvents \ m_waitEvents
             /\ \A e \in DOMAIN m_pendingEvents' :
                  m_pendingEvents'[e] = m_pendingEvents[e]
             /\ m_waitEvents' = {}
             /\ \A w \in Items : wiState'[w] = READY
             /\ pc' = "loop"
             /\ cout' = cout
     /\ (pc = "barrierCheck" /\ 0 < NumIn(WAIT_EVENT)
           /\ NumIn(WAIT_EVENT) < m_totalWorkItems)
          => /\ wiState' = wiState
             /\ UNCHANGED <<registry, memory>>
             /\ IF NumIn(BARRIER) > 0
                THEN pc' = "returned" /\ cout' = Append(cout, BarrierMsg)
                ELSE pc' = "waitCheck" /\ cout' = cout
     /\ (pc = "waitCheck" /\ 0 < NumIn(WAIT_EVENT)
           /\ NumIn(WAIT_EVENT) < m_totalWorkItems)
          => /\ wiState' = wiState
             /\ UNCHANGED <<registry, memory>>
             /\ pc' = "returned"
             /\ cout' = Append(cout, WaitMsg)
    ]_vars

\* run() has returned on an event-wait divergence: some work-items wait,
\* the others have finished.
C2_Witness ==
  /\ pc = "returned"
  /\ cout = <<WaitMsg>>
  /\ 0 < NumIn(WAIT_EVENT)
  /\ NumIn(WAIT_EVENT) < m_totalWorkItems
  /\ NumIn(WAIT_EVENT) + NumIn(FINISHED) = m_totalWorkItems

\* The descriptors registered under event e.
CopiesOf(e) == {m_pendingEvents[e][n] : n \in 1..Len(m_pendingEvents[e])}

\* C3 - Event dedup. A request for a descriptor that is pending under a
\* handle (equal in all five fields to one registered there and not yet
\* fulfilled) returns that handle; a handle whose descriptors all differ
\* from the requested one in some field is not returned; the returned
\* handle holds the requested descriptor from then on, and a pending
\* handle keeps its descriptors until the group copy fulfils it.
C3_EventDedup ==
  [][/\ (pc = "step" /\ pc' = "step")
          => \A copy \in Copies, ev \in 0..1 :
               RequestCopy(copy, ev)
                 => /\ \A e \in DOMAIN m_pendingEvents :
                         /\ copy \in CopiesOf(e) => event' = e
                         /\ copy \notin CopiesOf(e) => event' # e
                    /\ event' \in DOMAIN m_pendingEvents'
                    /\ \E n \in 1..Len(m_pendingEvents'[event']) :
                         m_pendingEvents'[event'][n] = copy
     /\ pc # "waitCheck"
          => \A e \in DOMAIN m_pendingEvents :
               /\ e \in DOMAIN m_pendingEvents'
               /\ m_pendingEvents'[e] = m_pendingEvents[e]
    ]_vars

\* Two handles are pending whose descriptors differ in one field only, and
\* the last request, made after both were allocated, was given the first.
C3_Witness ==
  /\ DOMAIN m_pendingEvents = {1, 2}
  /\ m_nextEvent = 3
  /\ event = 1
  /\ FieldsDiffering(m_pendingEvents[1][1], m_pendingEvents[2][1]) = 1

\* The group copy is about to run: every work-item waits for events.
GroupCopyDue ==
  /\ pc = "waitCheck"
  /\ m_totalWorkItems > 0
  /\ NumIn(WAIT_EVENT) = m_totalWorkItems

\* Addresses first..first+size-1.
Range(first, size) == first..(first + size - 1)

\* The descriptors the group copy is about to execute, with their handles.
Awaited ==
  UNION {{<<e, c>> : c \in CopiesOf(e)} :
           e \in m_waitEvents \cap DOMAIN m_pendingEvents}

\* A descriptor with source and destination ranges inside the spaces.
Valid(c) == InBounds(c.src, c.size) /\ InBounds(c.dest, c.size)

\* Descriptor c stores into byte a of the local (global) space.
WritesLocal(c, a) ==
  c.type = GLOBAL_TO_LOCAL /\ InBounds(c.dest, c.size) /\ a \in Range(c.dest, c.size)
WritesGlobal(c, a) ==
  c.type = LOCAL_TO_GLOBAL /\ InBounds(c.dest, c.size) /\ a \in Range(c.dest, c.size)

\* C4 as stated - after the group copy, the destination range of every
\* awaited descriptor (with ranges inside the spaces) holds the bytes its
\* source range held when the group copy began.
C4_Original ==
  [][GroupCopyDue
       => \A ec \in Awaited :
            Valid(ec[2])
              => \A o \in 0..(ec[2].size - 1) :
                   IF ec[2].type = GLOBAL_TO_LOCAL
                   THEN localMemory'[ec[2].dest + o] = globalMemory[ec[2].src + o]
                   ELSE globalMemory'[ec[2].dest + o] = localMemory[ec[2].src + o]
    ]_vars

\* No descriptor awaited under a smaller handle stores into the source
\* range of c, and none awaited under a larger handle stores into its
\* destination range.
Undisturbed(e, c) ==
  \A ec \in Awaited :
    /\ ec[1] < e
         => \A a \in Range(c.src, c.size) :
              IF c.type = GLOBAL_TO_LOCAL THEN ~WritesGlobal(ec[2], a)
              ELSE ~WritesLocal(ec[2], a)
    /\ ec[1] > e
         => \A a \in Range(c.dest, c.size) :
              IF c.type = GLOBAL_TO_LOCAL THEN ~WritesLocal(ec[2], a)
              ELSE ~WritesGlobal(ec[2], a)

\* C4 - Fulfillment correctness. After the group copy, the destination
\* range of an awaited descriptor whose ranges lie inside the spaces holds
\* the bytes its source range held when the group copy began, provided no
\* descriptor awaited under a smaller handle stores into its source range
\* and none awaited under a larger handle stores into its destination
\* range.
C4_FulfillmentCorrect ==
  [][GroupCopyDue
       => \A ec \in Awaited :
            (Valid(ec[2]) /\ Undisturbed(ec[1], ec[2]))
              => \A o \in 0..(ec[2].size - 1) :
                   IF ec[2].type = GLOBAL_TO_LOCAL
                   THEN localMemory'[ec[2].dest + o] = globalMemory[ec[2].src + o]
                   ELSE globalMemory'[ec[2].dest + o] = localMemory[ec[2].src + o]
    ]_vars

\* A group copy has moved global byte 0 to local byte 0 and erased the only
\* event there was.
C4_Witness ==
  /\ pc = "loop"
  /\ m_nextEvent = 2
  /\ DOMAIN m_pendingEvents = {}
  /\ localMemory[0] = 1
  /\ globalMemory[0] = 1

\* C5 - Single-use events. The group copy leaves no handle of m_waitEvents
\* in m_pendingEvents; a handle that was allocated and is no longer pending
\* never becomes pending again; and wait_event on such a handle fails its
\* assertion, m_waitEvents being left as it was.
C5_SingleUse ==
  [][/\ GroupCopyDue
          => \A e \in m_waitEvents : e \notin DOMAIN m_pendingEvents'
     /\ pc # "ctor"
          => \A e \in 1..(m_nextEvent - 1) :
               e \notin DOMAIN m_pendingEvents => e \notin DOMAIN m_pendingEvents'
     /\ \A ev \in 1..MaxEvents :
          (pc = "wge" /\ ev < m_nextEvent /\ ev \notin DOMAIN m_pendingEvents
             /\ AwaitEvent(ev))
            => /\ pc' = "aborted"
               /\ m_waitEvents' = m_waitEvents
               /\ m_pendingEvents' = m_pendingEvents
    ]_vars

\* Both handles a run may allocate were fulfilled and erased, and a
\* work-item that awaited one of them again has failed the assertion.
C5_Witness ==
  /\ pc = "aborted"
  /\ m_nextEvent = MaxEvents + 1
  /\ DOMAIN m_pendingEvents = {}

AllFinished == \A w \in Items : wiState[w] = FINISHED

\* C6 as stated - whenever run() has returned, every work-item is FINISHED
\* and no divergence fault was reported.
C6_Original ==
  pc = "returned" => (AllFinished /\ cout = <<>>)

\* run() is over: it returned with every work-item FINISHED and no fault,
\* or with one divergence fault reported, or the assertion of wait_event
\* ended the process.
Ended ==
  \/ pc = "returned" /\ AllFinished /\ cout = <<>>
  \/ pc = "returned" /\ cout \in {<<BarrierMsg>>, <<WaitMsg>>}
  \/ pc = "aborted"

\* C6 - Termination. With a kernel that always progresses (the kernels of
\* the model run out of instructions), run() ends: returning with every
\* work-item FINISHED and no fault, returning early with a divergence
\* fault, or in the failed assertion of wait_event.
C6_Termination == <>Ended

\* A group of MaxItems work-items has run to completion, the kernel having
\* executed every instruction it had.
C6_Witness ==
  /\ pc = "returned"
  /\ m_totalWorkItems = MaxItems
  /\ AllFinished
  /\ cout = <<>>
  /\ fuel = 0

\* C7 - Fault is distinguishable from completion. Whenever run() has
\* returned, every work-item is FINISHED exactly when no fault was
\* reported; a reported fault is one divergence message and leaves some
\* work-item not FINISHED.
C7_FaultDistinguishable ==
  pc = "returned"
    => /\ AllFinished <=> cout = <<>>
       /\ cout \in {<<>>, <<BarrierMsg>>, <<WaitMsg>>}
       /\ cout # <<>> => \E w \in Items : wiState[w] # FINISHED

\* run() has returned on a barrier divergence, some work-items having
\* finished.
C7_Witness ==
  /\ pc = "returned"
  /\ cout = <<BarrierMsg>>
  /\ NumIn(FINISHED) > 0
  /\ NumIn(BARRIER) > 0

\* C8 - Invalid event handle. wait_event with a handle that is not a key
\* of m_pendingEvents fails the assertion and leaves m_waitEvents and
\* m_pendingEvents as they were; with a handle that is a key it adds the
\* handle to m_waitEvents and changes nothing else of the group.
C8_InvalidHandle ==
  [][\A ev \in 1..MaxEvents :
       (pc = "wge" /\ AwaitEvent(ev))
         => IF ev \notin DOMAIN m_pendingEvents
            THEN /\ pc' = "aborted"
                 /\ m_waitEvents' = m_waitEvents
                 /\ ev \notin m_waitEvents' \ m_waitEvents
                 /\ m_pendingEvents' = m_pendingEvents
            ELSE /\ pc' # "aborted"
                 /\ m_waitEvents' = m_waitEvents \cup {ev}
                 /\ UNCHANGED <<m_pendingEvents, m_nextEvent, memory, grid,
                                wiState, counters, cout>>
    ]_vars

\* A work-item awaited a handle when no event had ever been registered.
C8_Witness ==
  /\ pc = "aborted"
  /\ m_nextEvent = 1
  /\ m_waitEvents = {}

\* The local coordinates of the group.
Coordinates ==
  (0..(m_groupSize[1] - 1)) \X (0..(m_groupSize[2] - 1))
    \X (0..(m_groupSize[3] - 1))

\* C9 - Linear indexing. Once the group is constructed, m_workItems has
\* the slots 0..gx*gy*gz-1, the work-item of coordinate (i,j,k) is in slot
\* i + (j + k*gy)*gx, every slot holds a work-item and no two slots the
\* same one; the constructor never assigns a slot twice; and a pass of
\* run() visits the slots in ascending order (with the kernel that returns
\* at once: the work-items of the slots below i are FINISHED, those above
\* are READY, and the only work-item whose state changes is that of slot i).
C9_LinearIndexing ==
  /\ [](pc # "ctor"
          => /\ DOMAIN m_workItems =
                  0..(m_groupSize[1] * m_groupSize[2] * m_groupSize[3] - 1)
             /\ \A c \in Coordinates :
                  m_workItems[c[1] + (c[2] + c[3] * m_groupSize[2]) * m_groupSize[1]] = c
             /\ \A n \in DOMAIN m_workItems : m_workItems[n] \in Coordinates
             /\ \A n1, n2 \in DOMAIN m_workItems :
                  m_workItems[n1] = m_workItems[n2] => n1 = n2
             /\ Items = Coordinates)
  /\ [][pc = "ctor"
          => \A n \in DOMAIN m_workItems :
               m_workItems[n] # Unset => m_workItems'[n] = m_workItems[n]]_vars
  /\ [](pc \in {"pass", "step", "tally"}
          => \A n \in DOMAIN m_workItems :
               /\ n < i => wiState[m_workItems[n]] = FINISHED
               /\ n > i => wiState[m_workItems[n]] = READY)
  /\ [][pc # "ctor"
          => \A w \in Items :
               wiState'[w] # wiState[w] => (i < m_totalWorkItems /\ w = m_workItems[i])]_vars

\* A pass over a group of size (1,2,2) has visited slots 0 and 1 and is at
\* slot 2, the work-item of coordinate (0,0,1).
C9_Witness ==
  /\ m_groupSize = <<1, 2, 2>>
  /\ pc = "step"
  /\ i = 2
  /\ m_workItems[2] = <<0, 0, 1>>

\* C10 - Event handles are never reused. m_nextEvent is 1 when the group
\* is constructed and never decreases; every pending handle and every
\* handle returned is below it; a handle that becomes pending is the old
\* value of m_nextEvent (so it is above every handle allocated before);
\* and the handle async_copy returns is pending and is either one that was
\* pending before the call or that new one, never an erased one.
C10_NoHandleReuse ==
  /\ [](pc = "run" => m_nextEvent = 1)
  /\ [](pc # "ctor"
          => /\ m_nextEvent >= 1
             /\ event < m_nextEvent
             /\ \A e \in DOMAIN m_pendingEvents : e >= 1 /\ e < m_nextEvent)
  /\ [][pc # "ctor"
          => /\ m_nextEvent' >= m_nextEvent
             /\ \A e \in DOMAIN m_pendingEvents' \ DOMAIN m_pendingEvents :
                  e = m_nextEvent /\ m_nextEvent' = e + 1]_vars
  /\ [][(pc = "step" /\ pc' = "step")
          => \A copy \in Copies, ev \in 0..1 :
               RequestCopy(copy, ev)
                 => /\ event' \in DOMAIN m_pendingEvents'
                    /\ event' \in DOMAIN m_pendingEvents
                         \/ event' = m_nextEvent]_vars

\* Handle 1 was fulfilled by a copy of global byte 0 to local byte 0 and
\* erased; a request made afterwards for BaseCopy, which copies the same
\* byte, was given handle 2.
C10_Witness ==
  /\ DOMAIN m_pendingEvents = {2}
  /\ m_pendingEvents[2] = <<BaseCopy>>
  /\ event = 2
  /\ m_nextEvent = 3
  /\ localMemory[0] = 1

\* C11 as stated - a handle leaves m_pendingEvents only when every
\* work-item of the group has called wait_event on it.
C11_Original ==
  [][\A e \in DOMAIN m_pendingEvents :
       e \notin DOMAIN m_pendingEvents'
         => \A n \in 0..(m_totalWorkItems - 1) : <<n, e>> \in awaited]_vars

\* C11 - Removal from the registry. A handle leaves m_pendingEvents only in
\* the group copy: every work-item of the group is in WAIT_EVENT, the
\* handle is in m_waitEvents, some work-item called wait_event on it in
\* this pass, and its copy has executed (when it is the only handle awaited
\* and its ranges lie inside the spaces, the destination range holds what
\* the source range held). The work-items need not all have awaited it.
\* m_waitEvents is the set of handles awaited in the pass until the group
\* copy clears it.
C11_RemovalOnlyInGroupCopy ==
  /\ [][\A e \in DOMAIN m_pendingEvents :
          e \notin DOMAIN m_pendingEvents'
            => /\ GroupCopyDue
               /\ e \in m_waitEvents
               /\ \E n \in 0..(m_totalWorkItems - 1) : <<n, e>> \in awaited
               /\ \A c \in CopiesOf(e) :
                    (m_waitEvents = {e} /\ Valid(c))
                      => \A o \in 0..(c.size - 1) :
                           IF c.type = GLOBAL_TO_LOCAL
                           THEN localMemory'[c.dest + o] = globalMemory[c.src + o]
                           ELSE globalMemory'[c.dest + o] = localMemory[c.src + o]
       ]_vars
  /\ [](pc \in {"pass", "step", "wge", "tally", "barrierCheck", "waitCheck"}
          => m_waitEvents = {p[2] : p \in awaited})

\* A group copy has erased two handles of a group of two work-items, each
\* awaited by one work-item only.
C11_Witness ==
  /\ pc = "loop"
  /\ m_totalWorkItems = 2
  /\ awaited = {<<0, 1>>, <<1, 2>>}
  /\ DOMAIN m_pendingEvents = {}
  /\ m_nextEvent = 3

\* C12 - Run-to-completion ordering within a pass. While a work-item is
\* being stepped, every work-item of a lower slot has left READY; only the
\* work-item of slot i changes state, and only in a step; a step is
\* followed by another step of the same work-item or, once it has left
\* READY, by the tally; and i moves on, by one, only from a work-item that
\* is not READY.
C12_RunToCompletion ==
  /\ [](pc \in {"step", "wge", "tally"}
          => /\ i < m_totalWorkItems
             /\ \A n \in 0..(i - 1) : wiState[m_workItems[n]] # READY
             /\ pc = "tally" => wiState[m_workItems[i]] # READY)
  /\ [][(pc \in {"pass", "step", "wge", "tally"})
          => /\ \A w \in Items :
                  wiState'[w] # wiState[w]
                    => (pc \in {"step", "wge"} /\ w = m_workItems[i])
             /\ i' # i
                  => (i' = i + 1 /\ wiState[m_workItems[i]] # READY)
             /\ pc \in {"step", "wge"}
                  => (/\ i' = i
                      /\ pc' \in {"step", "wge", "tally", "aborted"}
                      /\ (pc' = "tally") <=> (wiState'[m_workItems[i]] # READY))
    ]_vars

\* The work-item of slot 0 ran two instructions and reached a barrier; the
\* work-item of slot 1 is being stepped and that of slot 2 has not run.
C12_Witness ==
  /\ pc = "step"
  /\ m_totalWorkItems = 3
  /\ i = 1
  /\ fuel = MaxSteps - 2
  /\ wiState[m_workItems[0]] = BARRIER
  /\ wiState[m_workItems[2]] = READY

\* C13 - Deferred copies execute only on full convergence. A byte of
\* either memory space changes, or a handle leaves m_pendingEvents, only
\* in the closing check of a pass that every work-item left in WAIT_EVENT,
\* and run() then goes on without a fault; the closing checks of any other
\* pass (barrier release, barrier divergence, event-wait divergence, or
\* nothing to do) leave both memories and m_pendingEvents as they were.
\* (The loads and stores of the kernel's own instructions are not part of
\* the scheduler.)
C13_CopyOnlyOnConvergence ==
  [][/\ (memory' # memory
         \/ \E e \in DOMAIN m_pendingEvents : e \notin DOMAIN m_pendingEvents')
          => /\ GroupCopyDue
             /\ numWaitEvents = m_totalWorkItems
             /\ numBarriers = 0
             /\ pc' = "loop"
             /\ cout' = cout
     /\ (pc \in {"barrierCheck", "waitCheck"} /\ ~GroupCopyDue)
          => /\ memory' = memory
             /\ m_pendingEvents' = m_pendingEvents
     /\ (pc' = "returned" /\ cout' # cout)
          => /\ memory' = memory
             /\ m_pendingEvents' = m_pendingEvents
    ]_vars

\* run() has returned on an event-wait divergence: the handle one
\* work-item awaited is still pending and local byte 0, the destination of
\* its copy, is as it was.
C13_Witness ==
  /\ pc = "returned"
  /\ cout = <<WaitMsg>>
  /\ m_waitEvents = {1}
  /\ DOMAIN m_pendingEvents = {1}
  /\ m_pendingEvents[1] = <<BaseCopy>>
  /\ localMemory[0] = 1 + MemSize
  /\ globalMemory[0] = 1

\* C14 - Frame of async_copy. An instruction that leaves the work-item
\* READY (a request for a copy is one) changes neither memory space, nor
\* m_waitEvents, nor the state of any work-item, nor what was printed; a
\* request changes at most m_pendingEvents and m_nextEvent (and the handle
\* returned): when the descriptor is pending under some handle, neither;
\* otherwise the one new entry is added under the old m_nextEvent, the
\* other entries are kept, and m_nextEvent goes up by one.
C14_RequestFrame ==
  [][(pc = "step" /\ pc' = "step")
       => /\ UNCHANGED <<memory, m_waitEvents, wiState, grid, cout>>
          /\ \A copy \in Copies, ev \in 0..1 :
               RequestCopy(copy, ev)
                 => IF \E e \in DOMAIN m_pendingEvents : copy \in CopiesOf(e)
                    THEN /\ m_pendingEvents' = m_pendingEvents
                         /\ m_nextEvent' = m_nextEvent
                    ELSE /\ DOMAIN m_pendingEvents' =
                              DOMAIN m_pendingEvents \cup {m_nextEvent}
                         /\ \A e \in DOMAIN m_pendingEvents :
                              m_pendingEvents'[e] = m_pendingEvents[e]
                         /\ m_pendingEvents'[m_nextEvent] = <<copy>>
                         /\ m_nextEvent' = m_nextEvent + 1
    ]_vars

\* Three requests were made and nothing else: two allocated handles 1 and
\* 2, the third was given handle 1 and left the registry and the memories
\* as they were.
C14_Witness ==
  /\ pc = "step"
  /\ fuel = MaxSteps - 3
  /\ i = 0
  /\ DOMAIN m_pendingEvents = {1, 2}
  /\ m_nextEvent = 3
  /\ event = 1
  /\ m_waitEvents = {}
  /\ globalMemory[0] = 1
  /\ localMemory[0] = 1 + MemSize

\* What an uninitialised buffer may hold.
Buffers == [0..(MemSize - 1) -> JunkBytes]

\* C15 - Fulfillment order. In one group copy the awaited handles are
\* processed in ascending order, the copy of one handle being complete
\* before that of the next begins: when exactly two handles are awaited,
\* the memories afterwards are those left by the copy of the smaller
\* handle followed by the copy of the larger; and when two awaited handles
\* store into the same byte, no larger awaited handle stores into it and
\* no smaller one stores into the source range of the larger of the two,
\* the byte ends up holding what the copy of the larger handle moved
\* there. (Every handle holds one descriptor, so the order of the
\* descriptors of one handle does not show.)
C15_FulfillmentOrder ==
  [][GroupCopyDue
       => /\ \A e1, e2 \in m_waitEvents :
               (e1 < e2 /\ m_waitEvents = {e1, e2}
                  /\ Len(m_pendingEvents[e1]) = 1 /\ Len(m_pendingEvents[e2]) = 1)
                 => \E b1, b2 \in Buffers :
                      [global |-> globalMemory', local |-> localMemory'] =
                        DoCopy(m_pendingEvents[e2][1],
                               DoCopy(m_pendingEvents[e1][1],
                                      [global |-> globalMemory,
                                       local |-> localMemory], b1),
                               b2)
          /\ \A x \in Awaited, y \in Awaited :
               (x[1] < y[1] /\ Valid(x[2]) /\ Valid(y[2])
                  /\ x[2].type = y[2].type)
                 => \A a \in Range(x[2].dest, x[2].size)
                              \cap Range(y[2].dest, y[2].size) :
                      (/\ \A z \in Awaited :
                            /\ z[1] > y[1]
                                 => IF y[2].type = GLOBAL_TO_LOCAL
                                    THEN ~WritesLocal(z[2], a)
                                    ELSE ~WritesGlobal(z[2], a)
                            /\ z[1] < y[1]
                                 => IF y[2].type = GLOBAL_TO_LOCAL
                                    THEN ~WritesGlobal(z[2], y[2].src + a - y[2].dest)
                                    ELSE ~WritesLocal(z[2], y[2].src + a - y[2].dest))
                        => IF y[2].type = GLOBAL_TO_LOCAL
                           THEN localMemory'[a] = globalMemory[y[2].src + a - y[2].dest]
                           ELSE globalMemory'[a] = localMemory[y[2].src + a - y[2].dest]
    ]_vars

\* The one work-item of a group made two requests and awaited both
\* handles, and the group copy has fulfilled them. Local byte 0 holds what the
\* last global byte held and nothing else has changed: handle 2 moved the
\* last global byte to local byte 0, over what handle 1 (a copy of global
\* byte 0 to local byte 0) had put there.
C15_Witness ==
  /\ pc = "loop"
  /\ m_totalWorkItems = 1
  /\ fuel = MaxSteps - 3
  /\ DOMAIN m_pendingEvents = {}
  /\ m_nextEvent = 3
  /\ localMemory[0] = MemSize
  /\ \A a \in 1..(MemSize - 1) : localMemory[a] = a + 1 + MemSize
  /\ \A a \in 0..(MemSize - 1) : globalMemory[a] = a + 1

\* C16 - One copy per event regardless of group size. When every
\* work-item of a group of N >= 1 requests the same descriptor, awaits the
\* handle it was given and returns: every request is given handle 1, the
\* only one allocated; m_waitEvents holds nothing but handle 1; the one
\* group copy executes one copy of the descriptor and erases the handle;
\* and run() returns, with every work-item FINISHED, no fault, and the
\* registry empty.
C16_OneCopyPerEvent ==
  /\ [](pc # "ctor"
          => /\ m_nextEvent <= 2
             /\ DOMAIN m_pendingEvents \subseteq {1}
             /\ m_waitEvents \subseteq {1}
             /\ m_nextEvent = 2 => event = 1)
  /\ [][GroupCopyDue
          => /\ m_waitEvents = {1}
             /\ DOMAIN m_pendingEvents = {1}
             /\ \A n \in 0..(m_totalWorkItems - 1) : <<n, 1>> \in awaited
             /\ \E b \in Buffers :
                  [global |-> globalMemory', local |-> localMemory'] =
                    DoCopy(m_pendingEvents[1][1],
                           [global |-> globalMemory, local |-> localMemory], b)
             /\ DOMAIN m_pendingEvents' = {}
       ]_vars
  /\ [][memory' # memory => GroupCopyDue /\ m_nextEvent = 2 /\ fuel = 0]_vars
  /\ [](pc = "returned"
          => /\ AllFinished
             /\ cout = <<>>
             /\ m_totalWorkItems > 0
                  => /\ m_nextEvent = 2
                     /\ DOMAIN m_pendingEvents = {}
                     /\ m_waitEvents = {})
  /\ <>(pc = "returned")

\* A group of MaxItems work-items has run the kernel with BaseCopy: one
\* handle was allocated, global byte 0 was copied to local byte 0, and
\* run() has returned with every work-item FINISHED.
C16_Witness ==
  /\ pc = "returned"
  /\ m_totalWorkItems = MaxItems
  /\ AllFinished
  /\ cout = <<>>
  /\ m_nextEvent = 2
  /\ fuel = 0
  /\ localMemory[0] = 1
  /\ \A a \in 1..(MemSize - 1) : localMemory[a] = a + 1 + MemSize

\* C17 - Empty group. The group has no work-item exactly when one of its
\* dimensions is 0. Then, once it is constructed, run() does nothing but
\* return: it is about to start, at the loop test, or has returned; the
\* loop test leads to the return; nothing is printed; the memories hold
\* what they held, and the registry is as the constructor left it.
C17_EmptyGroup ==
  /\ [](m_totalWorkItems = 0 <=> \E d \in 1..3 : m_groupSize[d] = 0)
  /\ []((m_totalWorkItems = 0 /\ pc # "ctor")
          => /\ pc \in {"run", "loop", "returned"}
             /\ Items = {}
             /\ cout = <<>>
             /\ globalMemory = [a \in 0..(MemSize - 1) |-> a + 1]
             /\ localMemory = [a \in 0..(MemSize - 1) |-> a + 1 + MemSize]
             /\ m_nextEvent = 1
             /\ DOMAIN m_pendingEvents = {}
             /\ m_waitEvents = {})
  /\ [][(m_totalWorkItems = 0 /\ pc = "loop") => pc' = "returned"]_vars

\* run() has returned for a group of size (MaxDim, 0, MaxDim).
C17_Witness ==
  /\ pc = "returned"
  /\ m_groupSize = <<MaxDim, 0, MaxDim>>
  /\ m_totalWorkItems = 0

\* C18 - The awaited handles are pending. In every reachable state
\* m_waitEvents is a subset of the keys of m_pendingEvents, so the lookup
\* m_pendingEvents[e] of the group copy finds a key for every awaited
\* handle and the group copy adds no key; and m_waitEvents is empty at the
\* loop test and when a pass begins.
C18_WaitEventsPending ==
  /\ [](m_waitEvents \subseteq DOMAIN m_pendingEvents)
  /\ []((pc = "loop" \/ (pc = "pass" /\ i = 0)) => m_waitEvents = {})
  /\ [][GroupCopyDue
          => /\ \A e \in m_waitEvents :
                  e \in DOMAIN m_pendingEvents /\ Len(m_pendingEvents[e]) > 0
             /\ DOMAIN m_pendingEvents' \subseteq DOMAIN m_pendingEvents
       ]_vars

\* A second pass begins after a group copy that fulfilled handle 1 and
\* left handle 2, which nobody awaited, pending.
C18_Witness ==
  /\ pc = "pass"
  /\ i = 0
  /\ m_nextEvent = 3
  /\ DOMAIN m_pendingEvents = {2}
  /\ m_waitEvents = {}
  /\ NumIn(READY) = m_totalWorkItems

\* C19 - One descriptor per handle. Every pending handle holds a list of
\* exactly one descriptor; the descriptors of two distinct pending handles
\* differ in some field; the event argument of a request makes no
\* difference to what the request does; and a request leaves the list of
\* every handle that was pending as it was.
C19_OneDescriptorPerHandle ==
  /\ [](\A e \in DOMAIN m_pendingEvents : Len(m_pendingEvents[e]) = 1)
  /\ [](\A e1, e2 \in DOMAIN m_pendingEvents :
          e1 # e2 => FieldsDiffering(m_pendingEvents[e1][1],
                                     m_pendingEvents[e2][1]) > 0)
  /\ [][(pc = "step" /\ pc' = "step")
          => \A copy \in Copies :
               IF RequestCopy(copy, 0)
               THEN /\ RequestCopy(copy, 1)
                    /\ \A e \in DOMAIN m_pendingEvents :
                         /\ e \in DOMAIN m_pendingEvents'
                         /\ m_pendingEvents'[e] = m_pendingEvents[e]
               ELSE ~RequestCopy(copy, 1)
       ]_vars

\* Handle 1 is pending, and a request for another descriptor, which may
\* have named event 1, was given the new handle 2: each holds one
\* descriptor.
C19_Witness ==
  /\ pc = "step"
  /\ fuel = MaxSteps - 2
  /\ DOMAIN m_pendingEvents = {1, 2}
  /\ Len(m_pendingEvents[1]) = 1
  /\ Len(m_pendingEvents[2]) = 1
  /\ m_pendingEvents[1] # m_pendingEvents[2]
  /\ event = 2

\* C20 - Pass boundaries. When a pass begins every work-item is READY and
\* none has finished; during a pass the work-items of the slots above i
\* are READY, so the for loop never passes over a work-item; when the pass
\* ends none is READY and the three counters are the numbers of
\* work-items in BARRIER, in WAIT_EVENT and FINISHED; numFinished is the
\* number of FINISHED work-items at the loop test and at the return; and a
\* pass that ends with some work-items, not all, FINISHED ends in a
\* divergence fault: the barrier divergence when a work-item is in
\* BARRIER, the event-wait divergence otherwise.
C20_PassBoundaries ==
  /\ []((pc = "pass" /\ i = 0)
          => (NumIn(READY) = m_totalWorkItems /\ numFinished = 0))
  /\ []((pc \in {"pass", "step", "wge", "tally"})
          => \A n \in (i + 1)..(m_totalWorkItems - 1) :
               wiState[m_workItems[n]] = READY)
  /\ [][(pc = "pass" /\ i < m_totalWorkItems)
          => (wiState[m_workItems[i]] = READY /\ pc' = "step" /\ i' = i)]_vars
  /\ [](pc = "barrierCheck"
          => /\ NumIn(READY) = 0
             /\ numBarriers = NumIn(BARRIER)
             /\ numWaitEvents = NumIn(WAIT_EVENT)
             /\ numFinished = NumIn(FINISHED))
  /\ [](pc \in {"loop", "returned"} => numFinished = NumIn(FINISHED))
  /\ [][(pc \in {"barrierCheck", "waitCheck"}
           /\ 0 < NumIn(FINISHED) /\ NumIn(FINISHED) < m_totalWorkItems)
          => IF NumIn(BARRIER) > 0
             THEN /\ pc = "barrierCheck"
                  /\ pc' = "returned"
                  /\ cout' = Append(cout, BarrierMsg)
             ELSE \/ pc = "barrierCheck" /\ pc' = "waitCheck" /\ cout' = cout
                  \/ /\ pc = "waitCheck"
                     /\ pc' = "returned"
                     /\ cout' = Append(cout, WaitMsg)
       ]_vars

\* In a group of three, one work-item finished and two reached a barrier
\* in the same pass: run() has returned on the barrier divergence, with
\* numFinished 1.
C20_Witness ==
  /\ pc = "returned"
  /\ m_totalWorkItems = 3
  /\ numFinished = 1
  /\ NumIn(FINISHED) = 1
  /\ NumIn(BARRIER) = 2
  /\ cout = <<BarrierMsg>>

====
